---- MODULE Spec2Model ----
(***************************************************************************)
(* Model of sft.py: the formatting function applied to dataset examples    *)
(* and the orchestration carried out by the entry point and main().        *)
(***************************************************************************)
EXTENDS Integers, Sequences, FiniteSets, TLC

VARIABLES
    \* ---- formatting_prompts_func ----
    example,        \* the dataset row handed to formatting_prompts_func
    fstate,         \* "idle" | "ready" | "returned" | "raised"
    output_texts,   \* the list formatting_prompts_func returned
    raised,         \* the exception formatting_prompts_func raised, or None
    \* ---- entry point and main ----
    pc,             \* position of the (single) thread of control
    entry,          \* how main is reached: "script" | "external"
    parser,         \* what make_parser returned
    script_args,    \* [dataset_name]
    training_args,  \* [report_to, push_to_hub, gradient_checkpointing, output_dir]
    model_args,     \* [model_name_or_path, load_in_kbit]
    quantization_config,
    model_kwargs,   \* [use_cache, device_map, quantization_config]
    config,         \* [has_archs, architectures]: has_archs FALSE is None
    tokenizer,      \* [pad_token, eos_token]
    loaded_tokenizer, \* the tokenizer as AutoTokenizer.from_pretrained returned it
    calls,          \* log of the calls made to the external collaborators
    failed_at       \* the step whose exception ended the run, or None

fvars == <<example, fstate, output_texts, raised>>
mvars == <<pc, entry, parser, script_args, training_args, model_args,
           quantization_config, model_kwargs, config, tokenizer,
           loaded_tokenizer, calls, failed_at>>
vars == <<example, fstate, output_texts, raised,
          pc, entry, parser, script_args, training_args, model_args,
          quantization_config, model_kwargs, config, tokenizer,
          loaded_tokenizer, calls, failed_at>>

None == "None"

\* ------------------------------------------------------------------------
\* Bounds
\* ------------------------------------------------------------------------
MaxChosen == 3      \* longest 'chosen' list explored
MaxArchs == 2       \* longest config.architectures list explored

Contents == {"A", "B", "C", "D"}

\* ------------------------------------------------------------------------
\* Python values met in an example's 'chosen' field.  A value is a dict or a
\* list; `has` tells whether a dict has the 'content' key.
\* ------------------------------------------------------------------------
Dict(c) == [kind |-> "dict", has |-> TRUE, content |-> c, items |-> <<>>]
DictNoContent == [kind |-> "dict", has |-> FALSE, content |-> "", items |-> <<>>]
List(xs) == [kind |-> "list", has |-> FALSE, content |-> "", items |-> xs]

Turns == {Dict(c) : c \in Contents} \cup {DictNoContent}
Pairs == {List(<<Dict(a), Dict(b)>>) : a \in Contents, b \in Contents}
MalformedLists == {List(<<>>), List(<<Dict("A")>>), List(<<Dict("A"), DictNoContent>>),
                   List(<<DictNoContent, Dict("B")>>)}
Elements == Turns \cup Pairs \cup MalformedLists

SeqsUpTo(S, n) == UNION {[1..k -> S] : k \in 0..n}
Examples == {[chosen |-> ch] : ch \in SeqsUpTo(Elements, MaxChosen)}

\* The exception raised by v['content'], "" when it evaluates.
ContentErr(v) ==
    IF v.kind = "list" THEN "TypeError"
    ELSE IF ~v.has THEN "KeyError"
    ELSE ""

\* The exception raised by evaluating p[0]['content'] then p[1]['content'].
PairErr(p) ==
    IF p.kind = "dict" THEN "KeyError"
    ELSE IF Len(p.items) < 1 THEN "IndexError"
    ELSE IF ContentErr(p.items[1]) # "" THEN ContentErr(p.items[1])
    ELSE IF Len(p.items) < 2 THEN "IndexError"
    ELSE ContentErr(p.items[2])

\* The exception raised by the flat branch: chosen[0]['content'] then
\* chosen[1]['content'].
FlatErr(chosen) ==
    IF ContentErr(chosen[1]) # "" THEN ContentErr(chosen[1])
    ELSE ContentErr(chosen[2])

FormatText_SwappedRoles(user, assistant) ==
    "### User: " \o assistant \o "\n\n### Assistant: " \o user

\* f"### User: {user}\n\n### Assistant: {assistant}"
FormatText(user, assistant) ==
    "### User: " \o user \o "\n\n### Assistant: " \o assistant

Returned(texts) == [ok |-> TRUE, err |-> None, texts |-> texts]
Raised(e) == [ok |-> FALSE, err |-> e, texts |-> <<>>]

RECURSIVE FormatLoop_SkipFirst(_, _, _)
FormatLoop_SkipFirst(chosen, i, acc) ==
    IF i > Len(chosen) THEN Returned(acc)
    ELSE IF PairErr(chosen[i]) # "" THEN Raised(PairErr(chosen[i]))
    ELSE FormatLoop_SkipFirst(chosen, i + 1,
            IF i = 1 THEN acc
            ELSE Append(acc, FormatText(chosen[i].items[1].content,
                                        chosen[i].items[2].content)))

\* for i in range(len(example['chosen'])): ... output_texts.append(text)
\* (i is the 1-based position of Python's index i - 1)
RECURSIVE FormatLoop(_, _, _)
FormatLoop(chosen, i, acc) ==
    IF i > Len(chosen) THEN Returned(acc)
    ELSE IF PairErr(chosen[i]) # "" THEN Raised(PairErr(chosen[i]))
    ELSE FormatLoop(chosen, i + 1,
            Append(acc, FormatText(chosen[i].items[1].content,
                                   chosen[i].items[2].content)))

formatting_prompts_func(ex) ==
    IF Len(ex.chosen) = 2
    THEN IF FlatErr(ex.chosen) # "" THEN Raised(FlatErr(ex.chosen))
         ELSE Returned(<<FormatText(ex.chosen[1].content, ex.chosen[2].content)>>)
    ELSE FormatLoop(ex.chosen, 1, <<>>)

\* ------------------------------------------------------------------------
\* Specification of the formatting function on its own: the trainer hands
\* it one example and receives the list or the exception.
\* ------------------------------------------------------------------------
MainIdle ==
    /\ pc = "idle"
    /\ entry = None
    /\ parser = None
    /\ script_args = None
    /\ training_args = None
    /\ model_args = None
    /\ quantization_config = None
    /\ model_kwargs = None
    /\ config = None
    /\ tokenizer = None
    /\ loaded_tokenizer = None
    /\ calls = <<>>
    /\ failed_at = None

FmtIdle ==
    /\ example = None
    /\ fstate = "idle"
    /\ output_texts = <<>>
    /\ raised = None

InitFmt ==
    /\ MainIdle
    /\ example \in Examples
    /\ fstate = "ready"
    /\ output_texts = <<>>
    /\ raised = None

CallFormatting ==
    /\ fstate = "ready"
    /\ LET r == formatting_prompts_func(example) IN
        /\ fstate' = IF r.ok THEN "returned" ELSE "raised"
        /\ output_texts' = r.texts
        /\ raised' = r.err
    /\ UNCHANGED <<example>>
    /\ UNCHANGED mvars

NextFmt == CallFormatting

SpecFmt == InitFmt /\ [][NextFmt]_vars

\* ------------------------------------------------------------------------
\* Entry point and main(): argument values, collaborators' answers
\* ------------------------------------------------------------------------
DatasetNames == {"trl-lib/Capybara", "Skywork/Skywork-Reward-Preference-80K-v0.1"}
ScriptArgsSet == [dataset_name : DatasetNames]
TrainingArgsSet == [report_to : {<<>>, <<"wandb">>},
                    push_to_hub : BOOLEAN,
                    gradient_checkpointing : BOOLEAN,
                    output_dir : {"out"}]
ModelArgsSet == [model_name_or_path : {"Qwen/Qwen2-0.5B"}, load_in_kbit : BOOLEAN]

\* MODEL_FOR_IMAGE_TEXT_TO_TEXT_MAPPING_NAMES.values()
valid_image_text_architectures == {"LlavaForConditionalGeneration"}
ArchNames == valid_image_text_architectures \cup {"Qwen2ForCausalLM", "LlamaForCausalLM"}
Configs == {[has_archs |-> FALSE, architectures |-> <<>>]}
           \cup {[has_archs |-> TRUE, architectures |-> a] : a \in SeqsUpTo(ArchNames, MaxArchs)}

Tokenizers == [pad_token : {None, "<pad>"}, eos_token : {"</s>", "<|endoftext|>"}]

\* One call to a collaborator, as the log keeps it.
Call(fn, arg, result) ==
    [fn |-> fn, arg |-> arg, use_cache |-> "absent", device_map |-> None,
     quantization_config |-> None, report_to |-> <<>>, pad_token |-> None,
     result |-> result]
Results == {"returned", "raised"}

make_parser(subparsers) ==
    IF subparsers # None THEN "subparsers.add_parser(sft)" ELSE "TrlParser"

\* trl.get_quantization_config: a config when k-bit loading is asked for
get_quantization_config(margs) ==
    IF margs.load_in_kbit THEN "BitsAndBytesConfig" ELSE None

DeviceMap_Swapped(qc) == IF qc # None THEN "auto" ELSE "get_kbit_device_map()"

\* device_map=get_kbit_device_map() if quantization_config is not None else 'auto'
DeviceMap(qc) == IF qc # None THEN "get_kbit_device_map()" ELSE "auto"

UseCache_Coupled(targs) == IF targs.gradient_checkpointing THEN "False" ELSE "True"

\* use_cache=False
UseCache(targs) == "False"

\* config.architectures and any(arch in valid_image_text_architectures ...)
IsImageTextToText(cfg) ==
    /\ cfg.has_archs
    /\ Len(cfg.architectures) > 0
    /\ \E i \in 1..Len(cfg.architectures) :
            cfg.architectures[i] \in valid_image_text_architectures

\* model_kwargs.pop("use_cache", None)
PopUseCache(kwargs) == [kwargs EXCEPT !.use_cache = "absent"]

PadFallback_Always(tok) == [tok EXCEPT !.pad_token = tok.eos_token]

\* if tokenizer.pad_token is None: tokenizer.pad_token = tokenizer.eos_token
PadFallback(tok) ==
    IF tok.pad_token = None THEN [tok EXCEPT !.pad_token = tok.eos_token] ELSE tok

Fail(step) ==
    /\ pc' = "failed"
    /\ failed_at' = step

Init ==
    /\ FmtIdle
    /\ pc = "start"
    /\ entry = None
    /\ parser = None
    /\ script_args \in ScriptArgsSet
    /\ training_args \in TrainingArgsSet
    /\ model_args \in ModelArgsSet
    /\ quantization_config = None
    /\ model_kwargs = [use_cache |-> "absent", device_map |-> None,
                       quantization_config |-> None]
    /\ config = [has_archs |-> FALSE, architectures |-> <<>>]
    /\ tokenizer = [pad_token |-> None, eos_token |-> None]
    /\ loaded_tokenizer = [pad_token |-> None, eos_token |-> None]
    /\ calls = <<>>
    /\ failed_at = None

\* __main__: parser = make_parser()
ScriptMakeParser ==
    /\ pc = "start"
    /\ parser' = make_parser(None)
    /\ entry' = "script"
    /\ pc' = "parse"
    /\ UNCHANGED <<script_args, training_args, model_args, quantization_config,
                   model_kwargs, config, tokenizer, loaded_tokenizer, calls,
                   failed_at>>
    /\ UNCHANGED fvars

ParseArgsAndConfig_Swallow ==
    /\ pc = "parse"
    /\ \E r \in Results :
        /\ calls' = Append(calls, [Call("parse_args_and_config", parser, r) EXCEPT
                                    !.report_to = training_args.report_to])
        /\ pc' = "report_to"
        /\ failed_at' = IF r = "returned" THEN failed_at ELSE "parse"
    /\ UNCHANGED <<entry, parser, script_args, training_args, model_args,
                   quantization_config, model_kwargs, config, tokenizer,
                   loaded_tokenizer>>
    /\ UNCHANGED fvars

\* __main__: script_args, training_args, model_args = parser.parse_args_and_config()
\* (the three records are the values drawn in Init; a failure ends the run)
ParseArgsAndConfig ==
    /\ pc = "parse"
    /\ \E r \in Results :
        /\ calls' = Append(calls, [Call("parse_args_and_config", parser, r) EXCEPT
                                    !.report_to = training_args.report_to])
        /\ IF r = "returned"
           THEN pc' = "report_to" /\ UNCHANGED failed_at
           ELSE Fail("parse")
    /\ UNCHANGED <<entry, parser, script_args, training_args, model_args,
                   quantization_config, model_kwargs, config, tokenizer,
                   loaded_tokenizer>>
    /\ UNCHANGED fvars

DisableReporting_Skipped ==
    /\ pc = "report_to"
    /\ pc' = "kwargs"
    /\ UNCHANGED <<entry, parser, script_args, training_args, model_args,
                   quantization_config, model_kwargs, config, tokenizer,
                   loaded_tokenizer, calls, failed_at>>
    /\ UNCHANGED fvars

\* __main__: training_args.report_to = []; main(script_args, training_args, model_args)
DisableReporting ==
    /\ pc = "report_to"
    /\ training_args' = [training_args EXCEPT !.report_to = <<>>]
    /\ pc' = "kwargs"
    /\ UNCHANGED <<entry, parser, script_args, model_args, quantization_config,
                   model_kwargs, config, tokenizer, loaded_tokenizer, calls,
                   failed_at>>
    /\ UNCHANGED fvars

\* A command-line front end: parser = make_parser(subparsers)
ExternalMakeParser ==
    /\ pc = "start"
    /\ parser' = make_parser("subparsers")
    /\ entry' = "external"
    /\ pc' = "ext_parse"
    /\ UNCHANGED <<script_args, training_args, model_args, quantization_config,
                   model_kwargs, config, tokenizer, loaded_tokenizer, calls,
                   failed_at>>
    /\ UNCHANGED fvars

\* The front end parses with that parser and calls main(...) directly:
\* the __main__ block, and its report_to assignment, is not run.
ExternalParseAndCallMain ==
    /\ pc = "ext_parse"
    /\ \E r \in Results :
        /\ calls' = Append(calls, [Call("parse_args_and_config", parser, r) EXCEPT
                                    !.report_to = training_args.report_to])
        /\ IF r = "returned"
           THEN pc' = "kwargs" /\ UNCHANGED failed_at
           ELSE Fail("parse")
    /\ UNCHANGED <<entry, parser, script_args, training_args, model_args,
                   quantization_config, model_kwargs, config, tokenizer,
                   loaded_tokenizer>>
    /\ UNCHANGED fvars

\* main: quantization_config = ...; model_kwargs = dict(...)
BuildModelKwargs ==
    /\ pc = "kwargs"
    /\ LET qc == get_quantization_config(model_args) IN
        /\ quantization_config' = qc
        /\ model_kwargs' = [use_cache |-> UseCache(training_args),
                            device_map |-> DeviceMap(qc),
                            quantization_config |-> qc]
    /\ pc' = "config"
    /\ UNCHANGED <<entry, parser, script_args, training_args, model_args, config,
                   tokenizer, loaded_tokenizer, calls, failed_at>>
    /\ UNCHANGED fvars

\* main: config = AutoConfig.from_pretrained(model_args.model_name_or_path)
LoadConfig ==
    /\ pc = "config"
    /\ \/ /\ \E c \in Configs : config' = c
          /\ calls' = Append(calls, Call("AutoConfig.from_pretrained",
                                         model_args.model_name_or_path, "returned"))
          /\ pc' = "model"
          /\ UNCHANGED failed_at
       \/ /\ calls' = Append(calls, Call("AutoConfig.from_pretrained",
                                         model_args.model_name_or_path, "raised"))
          /\ Fail("config")
          /\ UNCHANGED config
    /\ UNCHANGED <<entry, parser, script_args, training_args, model_args,
                   quantization_config, model_kwargs, tokenizer, loaded_tokenizer>>
    /\ UNCHANGED fvars

LoaderCall(fn, kwargs, r) ==
    [Call(fn, model_args.model_name_or_path, r) EXCEPT
        !.use_cache = kwargs.use_cache,
        !.device_map = kwargs.device_map,
        !.quantization_config = kwargs.quantization_config]

\* main: the architecture branch and the from_pretrained call of either loader
LoadModel ==
    /\ pc = "model"
    /\ \E r \in Results :
        /\ IF IsImageTextToText(config)
           THEN /\ model_kwargs' = PopUseCache(model_kwargs)
                /\ calls' = Append(calls,
                        LoaderCall("AutoModelForImageTextToText.from_pretrained",
                                   PopUseCache(model_kwargs), r))
           ELSE /\ model_kwargs' = model_kwargs
                /\ calls' = Append(calls,
                        LoaderCall("AutoModelForCausalLM.from_pretrained",
                                   model_kwargs, r))
        /\ IF r = "returned"
           THEN pc' = "tokenizer" /\ UNCHANGED failed_at
           ELSE Fail("model")
    /\ UNCHANGED <<entry, parser, script_args, training_args, model_args,
                   quantization_config, config, tokenizer, loaded_tokenizer>>
    /\ UNCHANGED fvars

\* main: tokenizer = AutoTokenizer.from_pretrained(...)
LoadTokenizer ==
    /\ pc = "tokenizer"
    /\ \/ /\ \E t \in Tokenizers : tokenizer' = t /\ loaded_tokenizer' = t
          /\ calls' = Append(calls, Call("AutoTokenizer.from_pretrained",
                                         model_args.model_name_or_path, "returned"))
          /\ pc' = "pad"
          /\ UNCHANGED failed_at
       \/ /\ calls' = Append(calls, Call("AutoTokenizer.from_pretrained",
                                         model_args.model_name_or_path, "raised"))
          /\ Fail("tokenizer")
          /\ UNCHANGED <<tokenizer, loaded_tokenizer>>
    /\ UNCHANGED <<entry, parser, script_args, training_args, model_args,
                   quantization_config, model_kwargs, config>>
    /\ UNCHANGED fvars

\* main: the pad-token fallback
PadTokenFallback ==
    /\ pc = "pad"
    /\ tokenizer' = PadFallback(tokenizer)
    /\ pc' = "dataset"
    /\ UNCHANGED <<entry, parser, script_args, training_args, model_args,
                   quantization_config, model_kwargs, config, loaded_tokenizer,
                   calls, failed_at>>
    /\ UNCHANGED fvars

\* main: dataset = load_dataset(script_args.dataset_name, name=...)
LoadDataset ==
    /\ pc = "dataset"
    /\ \E r \in Results :
        /\ calls' = Append(calls, Call("load_dataset", script_args.dataset_name, r))
        /\ IF r = "returned"
           THEN pc' = "trainer" /\ UNCHANGED failed_at
           ELSE Fail("dataset")
    /\ UNCHANGED <<entry, parser, script_args, training_args, model_args,
                   quantization_config, model_kwargs, config, tokenizer,
                   loaded_tokenizer>>
    /\ UNCHANGED fvars

\* main: trainer = SFTTrainer(model=..., args=training_args, ...,
\*                            processing_class=tokenizer, ...)
ConstructTrainer ==
    /\ pc = "trainer"
    /\ \E r \in Results :
        /\ calls' = Append(calls,
                [Call("SFTTrainer", script_args.dataset_name, r) EXCEPT
                    !.report_to = training_args.report_to,
                    !.pad_token = tokenizer.pad_token])
        /\ IF r = "returned"
           THEN pc' = "train" /\ UNCHANGED failed_at
           ELSE Fail("trainer")
    /\ UNCHANGED <<entry, parser, script_args, training_args, model_args,
                   quantization_config, model_kwargs, config, tokenizer,
                   loaded_tokenizer>>
    /\ UNCHANGED fvars

\* main: trainer.train()
Train ==
    /\ pc = "train"
    /\ \E r \in Results :
        /\ calls' = Append(calls, Call("trainer.train", None, r))
        /\ IF r = "returned"
           THEN pc' = "save" /\ UNCHANGED failed_at
           ELSE Fail("train")
    /\ UNCHANGED <<entry, parser, script_args, training_args, model_args,
                   quantization_config, model_kwargs, config, tokenizer,
                   loaded_tokenizer>>
    /\ UNCHANGED fvars

SaveModel_NoSave ==
    /\ pc = "save"
    /\ pc' = "push"
    /\ UNCHANGED <<entry, parser, script_args, training_args, model_args,
                   quantization_config, model_kwargs, config, tokenizer,
                   loaded_tokenizer, calls, failed_at>>
    /\ UNCHANGED fvars

\* main: trainer.save_model(training_args.output_dir)
SaveModel ==
    /\ pc = "save"
    /\ \E r \in Results :
        /\ calls' = Append(calls, Call("trainer.save_model", training_args.output_dir, r))
        /\ IF r = "returned"
           THEN pc' = "push" /\ UNCHANGED failed_at
           ELSE Fail("save")
    /\ UNCHANGED <<entry, parser, script_args, training_args, model_args,
                   quantization_config, model_kwargs, config, tokenizer,
                   loaded_tokenizer>>
    /\ UNCHANGED fvars

PushToHub_Always ==
    /\ pc = "push"
    /\ \E r \in Results :
        /\ calls' = Append(calls, Call("trainer.push_to_hub", script_args.dataset_name, r))
        /\ IF r = "returned"
           THEN pc' = "done" /\ UNCHANGED failed_at
           ELSE Fail("push")
    /\ UNCHANGED <<entry, parser, script_args, training_args, model_args,
                   quantization_config, model_kwargs, config, tokenizer,
                   loaded_tokenizer>>
    /\ UNCHANGED fvars

\* main: if training_args.push_to_hub: trainer.push_to_hub(dataset_name=...)
PushToHub ==
    /\ pc = "push"
    /\ IF training_args.push_to_hub
       THEN \E r \in Results :
            /\ calls' = Append(calls,
                    Call("trainer.push_to_hub", script_args.dataset_name, r))
            /\ IF r = "returned"
               THEN pc' = "done" /\ UNCHANGED failed_at
               ELSE Fail("push")
       ELSE /\ pc' = "done"
            /\ UNCHANGED <<calls, failed_at>>
    /\ UNCHANGED <<entry, parser, script_args, training_args, model_args,
                   quantization_config, model_kwargs, config, tokenizer,
                   loaded_tokenizer>>
    /\ UNCHANGED fvars

Next ==
    \/ ScriptMakeParser
    \/ ParseArgsAndConfig
    \/ DisableReporting
    \/ ExternalMakeParser
    \/ ExternalParseAndCallMain
    \/ BuildModelKwargs
    \/ LoadConfig
    \/ LoadModel
    \/ LoadTokenizer
    \/ PadTokenFallback
    \/ LoadDataset
    \/ ConstructTrainer
    \/ Train
    \/ SaveModel
    \/ PushToHub

Spec == Init /\ [][Next]_vars

\* ------------------------------------------------------------------------
\* Properties of formatting_prompts_func (checked under SpecFmt)
\* ------------------------------------------------------------------------
Applied == fstate \in {"returned", "raised"}
HasContent(v) == v.kind = "dict" /\ v.has
IsPair(v) == v.kind = "list" /\ Len(v.items) = 2
             /\ HasContent(v.items[1]) /\ HasContent(v.items[2])

\* C1: a 'chosen' of exactly two elements, each with a 'content' key, gives
\* exactly one string, "### User: <chosen[0]>\n\n### Assistant: <chosen[1]>".
C1_FlatPairOneString ==
    (Applied /\ Len(example.chosen) = 2
        /\ HasContent(example.chosen[1]) /\ HasContent(example.chosen[2]))
    => /\ fstate = "returned"
       /\ output_texts = << "### User: " \o example.chosen[1].content
                            \o "\n\n### Assistant: " \o example.chosen[2].content >>

C1_Witness ==
    /\ fstate = "returned"
    /\ example.chosen = <<Dict("A"), Dict("B")>>
    /\ output_texts = << "### User: A\n\n### Assistant: B" >>

\* C2: a 'chosen' of N pairs, N # 2 (N = 0 and N = 1 included), gives exactly
\* N strings in input order, the i-th built from chosen[i][0] and chosen[i][1].
C2_PairSequenceNStrings ==
    (Applied /\ Len(example.chosen) # 2
        /\ \A i \in 1..Len(example.chosen) : IsPair(example.chosen[i]))
    => /\ fstate = "returned"
       /\ Len(output_texts) = Len(example.chosen)
       /\ \A i \in 1..Len(example.chosen) :
            output_texts[i] = "### User: " \o example.chosen[i].items[1].content
                              \o "\n\n### Assistant: "
                              \o example.chosen[i].items[2].content

C2_Witness ==
    /\ fstate = "returned"
    /\ example.chosen = <<List(<<Dict("A"), Dict("B")>>), List(<<Dict("C"), Dict("D")>>),
                          List(<<Dict("B"), Dict("A")>>)>>
    /\ output_texts = << "### User: A\n\n### Assistant: B",
                         "### User: C\n\n### Assistant: D",
                         "### User: B\n\n### Assistant: A" >>

\* C3: a 'chosen' of exactly the two pairs [[A, B], [C, D]] gives the two
\* strings "### User: A\n\n### Assistant: B" and "### User: C\n\n### Assistant: D".
C3_TwoPairsTwoStrings ==
    (Applied /\ example.chosen = <<List(<<Dict("A"), Dict("B")>>),
                                   List(<<Dict("C"), Dict("D")>>)>>)
    => /\ fstate = "returned"
       /\ output_texts = << "### User: A\n\n### Assistant: B",
                            "### User: C\n\n### Assistant: D" >>

\* ------------------------------------------------------------------------
\* Properties of the entry point and main (checked under Spec)
\* ------------------------------------------------------------------------
Idx(fn) == {i \in DOMAIN calls : calls[i].fn = fn}
ReturnedBefore(fn, i) ==
    \E j \in 1..(i - 1) : calls[j].fn = fn /\ calls[j].result = "returned"
HasReturned(fn) == \E j \in Idx(fn) : calls[j].result = "returned"

ImageLoader == "AutoModelForImageTextToText.from_pretrained"
CausalLoader == "AutoModelForCausalLM.from_pretrained"
LoaderCalls == Idx(ImageLoader) \cup Idx(CausalLoader)
InRegistry ==
    \E k \in DOMAIN config.architectures :
        config.architectures[k] \in {"LlavaForConditionalGeneration"}

\* C4: once the model config is known and the load step has run, exactly one
\* loader has been called: the image-text-to-text loader without use_cache
\* when a declared architecture is in the registry, else the causal-LM loader
\* with use_cache=False, whatever gradient_checkpointing is.
C4_LoaderSelection ==
    /\ Cardinality(LoaderCalls) <= 1
    /\ (HasReturned("AutoConfig.from_pretrained") /\ pc # "model")
        => Cardinality(LoaderCalls) = 1
    /\ \A i \in LoaderCalls :
        IF InRegistry
        THEN calls[i].fn = ImageLoader /\ calls[i].use_cache = "absent"
        ELSE calls[i].fn = CausalLoader /\ calls[i].use_cache = "False"

C4_Witness ==
    /\ pc = "tokenizer"
    /\ ~config.has_archs
    /\ ~training_args.gradient_checkpointing
    /\ \E i \in DOMAIN calls : calls[i].fn = CausalLoader /\ calls[i].use_cache = "False"

\* C5: between the pad-token fallback and the construction of the trainer,
\* the pad token is the end-of-sequence token if the loaded tokenizer had
\* none and is the loaded one otherwise; the end-of-sequence token is the
\* loaded one; the trainer receives that pad token.
ExpectedPad ==
    IF loaded_tokenizer.pad_token = None THEN loaded_tokenizer.eos_token
    ELSE loaded_tokenizer.pad_token

C5_PadTokenFallback ==
    /\ pc \in {"dataset", "trainer"}
        => /\ tokenizer.pad_token = ExpectedPad
           /\ tokenizer.eos_token = loaded_tokenizer.eos_token
    /\ \A i \in Idx("SFTTrainer") : calls[i].pad_token = ExpectedPad

C5_Witness ==
    /\ pc = "trainer"
    /\ loaded_tokenizer.pad_token = None
    /\ tokenizer.pad_token = "</s>"
    /\ tokenizer.eos_token = "</s>"

\* C6: no collaborator is called before parse_args_and_config has returned,
\* and a run whose argument parsing failed has called nothing else.
C6_ParseBeforeResources ==
    /\ \A i \in DOMAIN calls :
        calls[i].fn # "parse_args_and_config"
            => ReturnedBefore("parse_args_and_config", i)
    /\ (\E i \in Idx("parse_args_and_config") : calls[i].result = "raised")
        => /\ Len(calls) = 1
           /\ pc = "failed"

C6_Witness ==
    /\ entry = "script"
    /\ pc = "failed"
    /\ failed_at = "parse"
    /\ Len(calls) = 1
    /\ calls[1].fn = "parse_args_and_config"

\* C7: save_model(output_dir) is called only after train() returned and then
\* exactly once; push_to_hub is called only if the flag is set, only after
\* save_model returned, at most once, with the dataset name the data was
\* loaded from; once save_model has returned and the push step has run, it
\* has been called exactly when the flag is set.
C7_SaveThenPush ==
    /\ \A i \in Idx("trainer.save_model") :
        /\ ReturnedBefore("trainer.train", i)
        /\ calls[i].arg = training_args.output_dir
    /\ Cardinality(Idx("trainer.save_model")) <= 1
    /\ (HasReturned("trainer.train") /\ pc # "save")
        => Cardinality(Idx("trainer.save_model")) = 1
    /\ \A i \in Idx("trainer.push_to_hub") :
        /\ training_args.push_to_hub
        /\ ReturnedBefore("trainer.save_model", i)
        /\ \E k \in 1..(i - 1) :
            /\ calls[k].fn = "load_dataset"
            /\ calls[k].result = "returned"
            /\ calls[k].arg = calls[i].arg
    /\ Cardinality(Idx("trainer.push_to_hub")) <= 1
    /\ (HasReturned("trainer.save_model") /\ pc # "push")
        => (Cardinality(Idx("trainer.push_to_hub")) = 1 <=> training_args.push_to_hub)

C7_Witness ==
    /\ pc = "done"
    /\ training_args.push_to_hub
    /\ \E i \in Idx("trainer.push_to_hub") :
        calls[i].result = "returned" /\ calls[i].arg = script_args.dataset_name

\* C8 (as claimed): every finished run either completed with the model
\* saved, or failed with no model saved by the script.
Finished == pc \in {"done", "failed"}
C8_NoPartialFailure ==
    Finished => \/ pc = "done" /\ HasReturned("trainer.save_model")
                \/ pc = "failed" /\ ~HasReturned("trainer.save_model")

\* C8 (amended): a completed run has saved the model; a run that failed at
\* any step up to and including save_model ended without save_model having
\* returned; a run that failed in push_to_hub ended with a failure after the
\* model had been saved.
C8_FailureOutcomes ==
    /\ pc = "done" => HasReturned("trainer.save_model") /\ failed_at = None
    /\ pc = "failed" =>
        /\ failed_at # None
        /\ HasReturned("trainer.save_model") <=> failed_at = "push"

C8_Witness ==
    /\ pc = "failed"
    /\ failed_at = "push"
    /\ HasReturned("trainer.save_model")

\* C9 (as claimed): whichever way main is reached, SFTTrainer receives
\* training_args with report_to = [].
C9_ReportingDisabledOnEveryPath ==
    \A i \in Idx("SFTTrainer") : calls[i].report_to = <<>>

\* C9 (amended): when main is reached through the script's own entry point,
\* SFTTrainer receives training_args with report_to = [], whatever the
\* command line or config file supplied.
C9_ReportingDisabledByScript ==
    entry = "script" => \A i \in Idx("SFTTrainer") : calls[i].report_to = <<>>

C9_Witness ==
    /\ entry = "script"
    /\ calls # <<>>
    /\ calls[1].fn = "parse_args_and_config"
    /\ calls[1].report_to = <<"wandb">>
    /\ \E i \in Idx("SFTTrainer") : calls[i].report_to = <<>>

\* C10: the loader receives device_map = get_kbit_device_map() exactly when
\* the quantization config derived from the model arguments is not None,
\* and 'auto' otherwise; it receives that same quantization config on both
\* loading paths.
C10_DeviceMapFollowsQuantization ==
    \A i \in LoaderCalls :
        /\ calls[i].quantization_config = quantization_config
        /\ quantization_config # None <=> model_args.load_in_kbit
        /\ IF quantization_config # None
           THEN calls[i].device_map = "get_kbit_device_map()"
           ELSE calls[i].device_map = "auto"

C10_Witness ==
    /\ quantization_config # None
    /\ \E i \in Idx(ImageLoader) :
        /\ calls[i].device_map = "get_kbit_device_map()"
        /\ calls[i].quantization_config = "BitsAndBytesConfig"

====
